---- MODULE Spec2Model ----
(***************************************************************************)
(* Model of the Anuneko chat plugin (src/__init__.py): the in-memory       *)
(* session store (user_sessions, user_models), the three host-exposed      *)
(* operations (switch_model, new_session, handle_chat_command), clean_up,  *)
(* and the line-by-line stream aggregation of _stream_reply.               *)
(*                                                                         *)
(* The plugin runs on one asyncio event loop: a coroutine runs without     *)
(* interruption from one HTTP await to the next, so every action below is  *)
(* the code between two awaits of one task.                                *)
(*                                                                         *)
(* Texts are sequences of tokens, so that concatenation ("+" on Python     *)
(* strings) is \o and a suffix can be tested.                              *)
(***************************************************************************)
EXTENDS Integers, Sequences, FiniteSets, TLC

\* ------------------------------------------------------------------ bounds
\* Length of the streams enumerated for the aggregation of _stream_reply.
MaxLines == 3
\* Number of operations (switch_model, new_session, chat, clean_up) invoked in a run.
MaxOps == 2

\* ------------------------------------------------------------- vocabulary
Users == {"u1", "u2"}
Tasks == {"t1", "t2"}
TaskIndex(t) == IF t = "t1" THEN 1 ELSE 2

\* The two backend model names (user_models values).
OrangeCat == "Orange Cat"
ExoticShorthair == "Exotic Shorthair"
Models == {OrangeCat, ExoticShorthair}

\* Display labels: "橘猫" and "黑猫" in the source.
JuMao == "JuMao"
HeiMao == "HeiMao"

\* config.WATERMARK
WATERMARK == <<"WATERMARK">>

\* The messages the operations return (one token each stands for the literal).
MsgBranchUnresolved == <<"BRANCH_NOT_SELECTED">>
MsgRequestFailed == <<"REQUEST_FAILED_RETRY_LATER">>
MsgCreateFailed == <<"CREATE_SESSION_FAILED">>
MsgPromptInput == <<"PLEASE_ENTER_CONTENT">>
MsgNotACommand == << >>
MsgSpecifyModel == <<"PLEASE_SPECIFY_MODEL">>
MsgSwitchCreateFailed == <<"SWITCH_FAILED_CANNOT_CREATE">>
MsgSwitched(name) == <<"SWITCHED_TO", name>>
MsgSwitchFailed(name) == <<"SWITCH_TO", name, "FAILED">>
MsgNewSession(name) == <<"NEW_SESSION_CREATED_MODEL", name>>

\* ------------------------------------------------------- stream aggregation
\* JSON values as far as _stream_reply looks at them.
Str(s) == [ty |-> "str", s |-> s]
Num == [ty |-> "num"]
List(items) == [ty |-> "list", items |-> items]
NotAnObject == [ty |-> "num"]

\* One line of resp.aiter_lines().
BlankLine == [kind |-> "blank"]
\* A line without the "data: " prefix; code is what json.loads(line).get("code")
\* gives: "not_json" when json.loads raises, "no_code" for a record without it.
NonData(code) == [kind |-> "nondata", code |-> code]
\* A "data: " line; raw is "blank", "invalid" (json.loads raises), "nondict"
\* (a JSON value that is no object) or "dict" with the record j.
DataRaw(raw) == [kind |-> "data", raw |-> raw]
Data(j) == [kind |-> "data", raw |-> "dict", j |-> j]

ChoiceShown == "chat_choice_shown"
ErrorLine == NonData(ChoiceShown)

\* The lines the streams are made of.
LineAlphabet ==
  { BlankLine,
    NonData("not_json"),
    NonData("other_code"),
    ErrorLine,
    DataRaw("blank"),
    DataRaw("invalid"),
    DataRaw("nondict"),
    Data([msg_id |-> "m1"]),
    Data([msg_id |-> "m2", v |-> Str(<<"x">>)]),
    Data([msg_id |-> "m1", c |-> List(<<[c |-> 0, v |-> Str(<<"k">>)]>>)]),
    Data([c |-> List(<<[c |-> 0, v |-> Str(<<"H", "e">>)], [c |-> 1, v |-> Str(<<"X">>)]>>)]),
    Data([c |-> List(<<[c |-> 0, v |-> Str(<<"l", "l", "o">>)]>>)]),
    Data([c |-> List(<<[v |-> Str(<<"t">>)]>>)]),
    Data([c |-> List(<<[c |-> 0]>>)]),
    Data([c |-> List(<<NotAnObject, [c |-> 0, v |-> Str(<<"b">>)]>>)]),
    Data([c |-> List(<<[c |-> 0, v |-> Num], [c |-> 0, v |-> Str(<<"d">>)]>>)]),
    Data([c |-> List(<<[c |-> 0, v |-> Str(<<"a">>)]>>), v |-> Str(<<"z">>)]),
    Data([c |-> Num, v |-> Str(<<"q">>)]),
    Data([v |-> Str(<<"p">>)]),
    Data([v |-> Num]) }

RECURSIVE SeqsUpTo(_, _)
SeqsUpTo(S, n) ==
  IF n = 0 THEN { << >> }
  ELSE LET shorter == SeqsUpTo(S, n - 1)
       IN shorter \cup { Append(s, x) : s \in { t \in shorter : Len(t) = n - 1 }, x \in S }

Streams == SeqsUpTo(LineAlphabet, MaxLines)

\* choice.get(...) on a choice that is no object raises AttributeError.
IsObject(choice) == "ty" \notin DOMAIN choice

\* A fault of line 186: choice.get("c") without the default 0.
ChoiceTagRequired(choice) == IF "c" \in DOMAIN choice THEN choice.c ELSE 1

\* choice.get("c", 0)
ChoiceTag(choice) == IF "c" \in DOMAIN choice THEN choice.c ELSE 0

\* The loop "for choice in j['c']" from choice i on; acc is result so far.  An
\* exception (a choice that is no object, result += a non-string) leaves the
\* loop and the rest of the record: the outer "except Exception: continue".
RECURSIVE AddChoices(_, _, _)
AddChoices(items, i, acc) ==
  IF i > Len(items) THEN acc
  ELSE LET choice == items[i] IN
       IF ~IsObject(choice) THEN acc
       ELSE IF ChoiceTag(choice) = 0 /\ "v" \in DOMAIN choice
            THEN IF choice.v.ty = "str"
                 THEN AddChoices(items, i + 1, acc \o choice.v.s)
                 ELSE acc
            ELSE AddChoices(items, i + 1, acc)

\* A fault of lines 180-184: the tests chained as if / elif / elif, so that a
\* record with a msg_id is looked at no further.
ProcessRecordFirstShapeOnly(st, j) ==
  IF "msg_id" \in DOMAIN j
  THEN [result |-> st.result, current_msg_id |-> j.msg_id]
  ELSE [result |-> IF "c" \in DOMAIN j /\ j.c.ty = "list"
                   THEN AddChoices(j.c.items, 1, st.result)
                   ELSE IF "v" \in DOMAIN j /\ j.v.ty = "str"
                        THEN st.result \o j.v.s
                        ELSE st.result,
        current_msg_id |-> st.current_msg_id]

\* The body of the try block for a parsed record j, on the aggregation state
\* st = [result, current_msg_id].
ProcessRecord(st, j) ==
  LET mid == IF "msg_id" \in DOMAIN j THEN j.msg_id ELSE st.current_msg_id
      res == IF "c" \in DOMAIN j /\ j.c.ty = "list"
             THEN AddChoices(j.c.items, 1, st.result)
             ELSE IF "v" \in DOMAIN j /\ j.v.ty = "str"
                  THEN st.result \o j.v.s
                  ELSE st.result
  IN [result |-> res, current_msg_id |-> mid]

\* A fault of line 168: the code is compared with a value that never occurs.
IsChoiceShownNever(line) == FALSE

\* Whether the line makes _stream_reply return the unresolved-branch message.
IsChoiceShown(line) == line.kind = "nondata" /\ line.code = ChoiceShown

\* One iteration of "async for line in resp.aiter_lines()" that does not return.
ProcessLine(st, line) ==
  IF line.kind = "data" /\ line.raw = "dict" THEN ProcessRecord(st, line.j) ELSE st

AggInit == [result |-> << >>, current_msg_id |-> ""]

\* A fault of lines 170-171: without the "except Exception: continue", the
\* exception of json.loads on a line that does not parse leaves the loop.
UncaughtWhenUnparsed(line) == line.kind = "nondata" /\ line.code = "not_json"

\* Whether an exception raised while the line is processed reaches the
\* "except Exception" of line 196: never, the try blocks of lines 167-171 and
\* 174-191 catch every Exception and continue.
Uncaught(line) == FALSE

\* The whole loop over a stream that is delivered without a transport fault:
\* [outcome, result, current_msg_id, consumed].
RECURSIVE Aggregate(_, _, _)
Aggregate(lines, i, st) ==
  IF i > Len(lines)
  THEN [outcome |-> "eof", result |-> st.result,
        current_msg_id |-> st.current_msg_id, consumed |-> Len(lines)]
  ELSE IF IsChoiceShown(lines[i])
       THEN [outcome |-> "unresolved", result |-> st.result,
             current_msg_id |-> st.current_msg_id, consumed |-> i]
       ELSE IF Uncaught(lines[i])
            THEN [outcome |-> "fault", result |-> st.result,
                  current_msg_id |-> st.current_msg_id, consumed |-> i]
            ELSE Aggregate(lines, i + 1, ProcessLine(st, lines[i]))

\* A fault of lines 169 and 193: the test is made whenever the loop is left,
\* also after the chat_choice_shown line.
SendsChoiceWheneverIdSeen(a) == a.current_msg_id # ""

\* "if current_msg_id: await _send_choice(current_msg_id)", reached when the
\* loop has ended without a return and without an exception.
SendsChoice(a) == a.outcome = "eof" /\ a.current_msg_id # ""

\* What _stream_reply returns, lines 169, 198 and 200.
StreamReply(a) ==
  IF a.outcome = "unresolved" THEN MsgBranchUnresolved
  ELSE IF a.outcome = "fault" THEN MsgRequestFailed
  ELSE a.result

\* The streams a chat call of the session model may receive.
ChatStreams ==
  { <<Data([msg_id |-> "m1"]),
      Data([c |-> List(<<[c |-> 0, v |-> Str(<<"H", "e">>)], [c |-> 1, v |-> Str(<<"X">>)]>>)]),
      Data([msg_id |-> "m2", c |-> List(<<[c |-> 0, v |-> Str(<<"l", "l", "o">>)]>>)])>>,
    <<Data([msg_id |-> "m1"]), Data([v |-> Str(<<"p">>)]), ErrorLine>>,
    <<BlankLine, NonData("not_json")>> }

\* ------------------------------------------------------------ the handlers
\* Absent dictionary entries, the empty string "" of chat_id.
NoSid == 0
NoModel == "none"

\* full_text of handle_chat_command, character by character.
FullTexts ==
  { <<" ", "/", "c", "h", "a", "t", " ", "h", "i">>,
    <<"/", "c", "h", "a", "t", " ">>,
    <<"h", "i">> }

\* target of switch_model: a sequence of words.
Targets ==
  { <<"JuMaoKw">>, <<"Orange">>, <<"HeiMaoKw">>, <<"EXOTIC">>,
    <<"EXOTIC", "orange">>, <<"dog">> }

\* str.lower() on a word.
Lower(w) ==
  CASE w = "Orange" -> "orange"
    [] w = "EXOTIC" -> "exotic"
    [] OTHER -> w

\* "word in target" / "word in target.lower()"
Contains(target, w) == \E i \in 1..Len(target) : target[i] = w
ContainsLower(target, w) == \E i \in 1..Len(target) : Lower(target[i]) = w

\* switch_model's keyword match: <<target_model, target_name>>, or << >> when
\* neither keyword set matches.
MapTarget(target) ==
  IF Contains(target, "JuMaoKw") \/ ContainsLower(target, "orange")
  THEN <<OrangeCat, JuMao>>
  ELSE IF Contains(target, "HeiMaoKw") \/ ContainsLower(target, "exotic")
       THEN <<ExoticShorthair, HeiMao>>
       ELSE << >>

\* str.lstrip()
RECURSIVE Lstrip(_)
Lstrip(s) == IF s # << >> /\ Head(s) = " " THEN Lstrip(Tail(s)) ELSE s

CommandPrefix == <<"/", "c", "h", "a", "t">>

\* full_text.lstrip().startswith("/chat")
IsChatCommand(full_text) ==
  LET s == Lstrip(full_text)
  IN Len(s) >= Len(CommandPrefix) /\ SubSeq(s, 1, Len(CommandPrefix)) = CommandPrefix

\* full_text.lstrip()[5:].lstrip()
ChatContent(full_text) ==
  LET s == Lstrip(full_text) IN Lstrip(SubSeq(s, Len(CommandPrefix) + 1, Len(s)))

\* A fault of line 277: the test for empty content is missing.
HasContentAlways(content) == TRUE

\* "if not content" of handle_chat_command, negated
HasContent(content) == content # << >>

\* dict.get with a default
GetSid(us, u) == IF u \in DOMAIN us THEN us[u] ELSE NoSid
GetModel(um, u) == IF u \in DOMAIN um THEN um[u] ELSE NoModel

\* A fault of lines 109 and 126: the value is stored under every key.
PutUnderEveryKey(d, k, v) == [x \in DOMAIN d \cup {k} |-> v]

\* dict[key] = value
Put(d, k, v) == [x \in DOMAIN d \cup {k} |-> IF x = k THEN v ELSE d[x]]

\* user_models.get(user_id, "Orange Cat") of _create_new_session
ModelForCreate(um, u) == IF u \in DOMAIN um THEN um[u] ELSE OrangeCat

\* A fault of line 226: a session is created whether or not the user has one.
SwitchAlwaysCreates(us, u) == TRUE

\* "user_id not in user_sessions" of switch_model
SwitchNeedsSession(us, u) == u \notin DOMAIN us

\* A fault of line 281: the test inverted.
ChatNeedsSessionInverted(us, u) == u \in DOMAIN us

\* "user_id not in user_sessions" of handle_chat_command
ChatNeedsSession(us, u) == u \notin DOMAIN us

\* new_session's label: "橘猫" if user_models.get(user_id) == "Orange Cat" else "黑猫"
NewSessionLabel(um, u) == IF GetModel(um, u) = OrangeCat THEN JuMao ELSE HeiMao

\* handle_chat_command's "return reply + config.WATERMARK"
ChatReturn(reply) == reply \o WATERMARK

\* A fault of lines 140-141: a failure of _send_choice is not swallowed and
\* reaches the "except Exception" of _stream_reply.
AfterSendChoiceRaises(result, ok) == IF ok THEN result ELSE MsgRequestFailed

\* What _stream_reply returns once _send_choice has ended: _send_choice
\* swallows every exception, so the outcome ok does not matter.
AfterSendChoice(result, ok) == result

\* A fault of lines 125-126: the model is recorded whatever the status.
RecordModelAlways(um, u, model_name, ok) == Put(um, u, model_name)

\* _switch_model's "if resp.status_code == 200: user_models[user_id] = model_name"
RecordModel(um, u, model_name, ok) == IF ok THEN Put(um, u, model_name) ELSE um

VARIABLES
  user_sessions,  \* user_sessions: qq -> chat_id
  user_models,    \* user_models: qq -> model name
  backend,        \* the backend's sessions: backend[chat_id].model is the session's
                  \* model, backend[chat_id].user the user it was created for
  task,           \* the running handler of each task, see IdleTask
  last,           \* per user, what the last handler that ran alone returned
  nops,           \* operations invoked so far
  lines,          \* the stream under aggregation
  pos,            \* lines consumed
  agg,            \* [result, current_msg_id] of _stream_reply
  outcome         \* "reading", "eof", "unresolved" or "fault"

vars == <<user_sessions, user_models, backend, task, last, nops, lines, pos, agg, outcome>>
sessionVars == <<user_sessions, user_models, backend, task, last, nops>>
streamVars == <<lines, pos, agg, outcome>>

\* A task's handler: its position (pc), its arguments and locals, and what it
\* has done so far:
\*   reqs           the backend requests it issued, in order
\*   received       the lines its stream delivered
\*   stream, choice how its stream and its select-choice request ended
\*   switched       how the selectModel request of switch_model ended
\*   created        how the createSession request ended ("ok", "failed")
\*   pre_*, post_*  the user's store entries when it was invoked and when it
\*                  returned
\*   solo           no other handler of the same user ran meanwhile
\*   cleaned        clean_up ran meanwhile
\*   all_ok         no backend call of it failed
\*   entered        how often the user went from no session to a session
\*                  meanwhile
\*   prev           what the handler invoked for the same user just before it
\*                  returned, see Summary
\* The record of a handler that has returned is kept until the next operation
\* is invoked.
NoPrev == [op |-> "none"]

\* What last holds for a user when no handler of the user has been invoked or
\* has taken a step since the module was imported (Imported, kept by the
\* specification that compares a process that has run with a new one), or
\* since clean_up removed the user's entries (CleanedUp).
Imported == [op |-> "import"]

CleanedUp == [op |-> "clean_up"]

IdleTask ==
  [pc |-> "idle", op |-> "none", user |-> "none",
   target_model |-> NoModel, target_name |-> "none", content |-> << >>,
   model |-> NoModel, chat_id |-> NoSid, session_id |-> NoSid,
   received |-> << >>, result |-> << >>, current_msg_id |-> "",
   stream |-> "none", choice |-> "none", switched |-> "none", created |-> "none",
   ret |-> << >>, reqs |-> << >>,
   pre_sid |-> NoSid, pre_model |-> NoModel, post_sid |-> NoSid, post_model |-> NoModel,
   solo |-> TRUE, cleaned |-> FALSE, all_ok |-> TRUE, entered |-> 0, prev |-> NoPrev]

Running(r) == r.pc \notin {"idle", "done", "raised"}

\* The handler returns ret; us and um are the store as it returns.
Return(r, ret, us, um) ==
  [r EXCEPT !.pc = "done", !.ret = ret,
            !.post_sid = GetSid(us, r.user), !.post_model = GetModel(um, r.user)]

\* The handler ends with an uncaught exception.
Raise(r, us, um) ==
  [r EXCEPT !.pc = "raised",
            !.post_sid = GetSid(us, r.user), !.post_model = GetModel(um, r.user)]

\* _create_new_session up to its "await client.post(config.CHAT_API_URL, ...)"
EnterCreate(r, um) ==
  LET model == ModelForCreate(um, r.user)
  IN [r EXCEPT !.pc = "create_post", !.model = model,
               !.reqs = Append(@, <<"createSession", model>>)]

\* _switch_model up to its "await client.post(config.SELECT_MODEL_URL, ...)"
EnterSelect(r, pc, chat_id, model) ==
  [r EXCEPT !.pc = pc, !.reqs = Append(@, <<"selectModel", chat_id, model>>)]

\* handle_chat_command from "session_id = user_sessions[user_id]" to the
\* "client.stream(...)" of _stream_reply; KeyError when the entry is gone.
EnterStream(r, us, um) ==
  IF r.user \in DOMAIN us
  THEN [r EXCEPT !.pc = "stream", !.session_id = us[r.user],
                 !.reqs = Append(@, <<"stream", us[r.user], r.content>>)]
  ELSE Raise(r, us, um)

\* A handler of task t is invoked for user u: the fresh record, and the other
\* tasks' records (a running handler of the same user is no longer alone).
Invoked(t, u, op) ==
  LET shared == \E q \in Tasks \ {t} : Running(task[q]) /\ task[q].user = u
  IN [IdleTask EXCEPT !.op = op, !.user = u, !.solo = ~shared,
                      !.prev = IF shared /\ last[u] # CleanedUp THEN NoPrev ELSE last[u],
                      !.pre_sid = GetSid(user_sessions, u),
                      !.pre_model = GetModel(user_models, u)]

Others(t, u) ==
  [q \in Tasks |-> IF Running(task[q])
                   THEN IF q # t /\ task[q].user = u
                        THEN [task[q] EXCEPT !.solo = FALSE]
                        ELSE task[q]
                   ELSE IdleTask]

\* What is remembered of a handler that returned.
Summary(r) ==
  [op |-> r.op, target_model |-> r.target_model, ret |-> r.ret, all_ok |-> r.all_ok,
   sid |-> r.post_sid, model |-> r.post_model]

\* last after a step of task t: a handler that returned after running alone,
\* without clean_up and without a failed backend call, is remembered until
\* the next handler of its user is invoked.
Track(t, invoking) ==
  LET r == task'[t] IN
  last' = [last EXCEPT ![r.user] =
             IF Running(r) THEN NoPrev
             ELSE IF r.pc = "done" /\ r.solo /\ ~r.cleaned /\ r.all_ok
                  THEN Summary(r) ELSE NoPrev]

\* The host invokes a handler on a new task; the tasks being interchangeable,
\* it is the first one that runs no handler.
CanInvoke(t) ==
  /\ ~Running(task[t])
  /\ \A q \in Tasks : ~Running(task[q]) => TaskIndex(t) <= TaskIndex(q)
  /\ nops < MaxOps

\* switch_model, lines 219-233, up to its first await.
SwitchModel(t, u, target) ==
  /\ CanInvoke(t)
  /\ LET m == MapTarget(target)
         r0 == Invoked(t, u, "switch")
         r1 == IF m = << >> THEN r0
               ELSE [r0 EXCEPT !.target_model = m[1], !.target_name = m[2]]
         r2 == IF m = << >>
               THEN Return(r1, MsgSpecifyModel, user_sessions, user_models)
               ELSE IF SwitchNeedsSession(user_sessions, u)
                    THEN EnterCreate(r1, user_models)
                    ELSE EnterSelect([r1 EXCEPT !.chat_id = user_sessions[u]],
                                     "select_post", user_sessions[u], m[1])
     IN task' = [Others(t, u) EXCEPT ![t] = r2]
  /\ nops' = nops + 1
  /\ Track(t, TRUE)
  /\ UNCHANGED <<user_sessions, user_models, backend, streamVars>>

\* new_session, line 251, up to the await of _create_new_session.
NewSession(t, u) ==
  /\ CanInvoke(t)
  /\ task' = [Others(t, u) EXCEPT ![t] = EnterCreate(Invoked(t, u, "new"), user_models)]
  /\ nops' = nops + 1
  /\ Track(t, TRUE)
  /\ UNCHANGED <<user_sessions, user_models, backend, streamVars>>

\* handle_chat_command, lines 273-287, up to its first await.
HandleChatCommand(t, u, full_text) ==
  /\ CanInvoke(t)
  /\ LET r0 == Invoked(t, u, "chat")
         r1 == [r0 EXCEPT !.content = IF IsChatCommand(full_text)
                                       THEN ChatContent(full_text) ELSE << >>]
         r2 == IF ~IsChatCommand(full_text)
               THEN Return(r1, MsgNotACommand, user_sessions, user_models)
               ELSE IF ~HasContent(r1.content)
                    THEN Return(r1, MsgPromptInput, user_sessions, user_models)
                    ELSE IF ChatNeedsSession(user_sessions, u)
                         THEN EnterCreate(r1, user_models)
                         ELSE EnterStream(r1, user_sessions, user_models)
     IN task' = [Others(t, u) EXCEPT ![t] = r2]
  /\ nops' = nops + 1
  /\ Track(t, TRUE)
  /\ UNCHANGED <<user_sessions, user_models, backend, streamVars>>

\* A fault of line 229: switch_model returns the message of new_session.
CreateFailedMessageOfNewSession(op) == MsgCreateFailed

\* What the caller of _create_new_session does with the "" it returns.
CreateFailedMessage(op) ==
  IF op = "switch" THEN MsgSwitchCreateFailed ELSE MsgCreateFailed

\* The tasks when user u gets a session id: the handlers of u that run count
\* the times u went from no session to a session.
Entered(u) ==
  [q \in Tasks |-> IF Running(task[q]) /\ task[q].user = u /\ u \notin DOMAIN user_sessions
                   THEN [task[q] EXCEPT !.entered = @ + 1]
                   ELSE task[q]]

\* The response to the createSession request of _create_new_session, lines
\* 104-114, and the caller's code after it; how is "ok" (a 2xx response with a
\* chat_id or id), "noid" (a 2xx response with neither) or "fail" (another
\* status, a network fault).  On "ok" the handler goes on to the await of
\* _switch_model(user_id, chat_id, model).
CreateResponse(t, how) ==
  LET r == task[t] IN
  /\ r.pc = "create_post"
  /\ IF how = "ok"
     THEN LET chat_id == Len(backend) + 1 IN
          /\ backend' = Append(backend, [model |-> r.model, user |-> r.user])
          /\ user_sessions' = Put(user_sessions, r.user, chat_id)
          /\ task' = [Entered(r.user) EXCEPT ![t] =
                        EnterSelect([@ EXCEPT !.chat_id = chat_id, !.created = how],
                                    "init_select_post", chat_id, r.model)]
     ELSE /\ task' = [task EXCEPT ![t] =
                        Return([r EXCEPT !.all_ok = FALSE, !.created = "failed"],
                               CreateFailedMessage(r.op),
                               user_sessions, user_models)]
          /\ UNCHANGED <<user_sessions, backend>>
  /\ Track(t, FALSE)
  /\ UNCHANGED <<user_models, nops, streamVars>>

\* The caller's code after a successful _create_new_session, with the store
\* us, um as it is when _create_new_session returns.
AfterCreate(r, us, um) ==
  CASE r.op = "switch" ->
         EnterSelect(r, "select_post", r.chat_id, r.target_model)
    [] r.op = "new" ->
         Return(r, MsgNewSession(NewSessionLabel(um, r.user)), us, um)
    [] r.op = "chat" ->
         EnterStream(r, us, um)

\* The response to the selectModel request that _create_new_session makes,
\* lines 124-130 and 111, and the caller's code after it.
InitSelectResponse(t, ok) ==
  LET r == task[t]
      um == RecordModel(user_models, r.user, r.model, ok)
  IN
  /\ r.pc = "init_select_post"
  /\ user_models' = um
  /\ backend' = IF ok THEN [backend EXCEPT ![r.chat_id].model = r.model] ELSE backend
  /\ task' = [task EXCEPT ![t] =
                AfterCreate([r EXCEPT !.all_ok = @ /\ ok], user_sessions, um)]
  /\ Track(t, FALSE)
  /\ UNCHANGED <<user_sessions, nops, streamVars>>

\* The response to the selectModel request of switch_model, lines 124-130 and 234.
SelectResponse(t, ok) ==
  LET r == task[t]
      um == RecordModel(user_models, r.user, r.target_model, ok)
  IN
  /\ r.pc = "select_post"
  /\ user_models' = um
  /\ backend' = IF ok THEN [backend EXCEPT ![r.chat_id].model = r.target_model] ELSE backend
  /\ task' = [task EXCEPT ![t] =
                Return([r EXCEPT !.all_ok = @ /\ ok,
                                 !.switched = IF ok THEN "ok" ELSE "failed"],
                       IF ok THEN MsgSwitched(r.target_name)
                             ELSE MsgSwitchFailed(r.target_name),
                       user_sessions, um)]
  /\ Track(t, FALSE)
  /\ UNCHANGED <<user_sessions, nops, streamVars>>

\* The stream is delivered to its end or to the chat_choice_shown line, lines
\* 160-194 and 288: the unresolved-branch message is returned from inside the
\* loop; otherwise, with a message id, the handler goes on to the await of
\* _send_choice, and without one _stream_reply returns result.
StreamDelivered(t, ls) ==
  LET r == task[t]
      a == Aggregate(ls, 1, AggInit)
      r1 == [r EXCEPT !.received = ls, !.stream = a.outcome, !.result = a.result,
                      !.current_msg_id = a.current_msg_id]
  IN
  /\ r.pc = "stream"
  /\ task' = [task EXCEPT ![t] =
       IF SendsChoice(a)
       THEN [r1 EXCEPT !.pc = "choice_post", !.choice = "pending",
                       !.reqs = Append(@, <<"resolveBranch", a.current_msg_id>>)]
       ELSE Return([r1 EXCEPT !.all_ok = @ /\ a.outcome # "fault"],
                   ChatReturn(StreamReply(a)), user_sessions, user_models)]
  /\ Track(t, FALSE)
  /\ UNCHANGED <<user_sessions, user_models, backend, nops, streamVars>>

\* Opening or reading the stream raises (network fault, timeout), lines 196-198
\* and 288: whatever was read is dropped.
StreamFault(t) ==
  LET r == task[t] IN
  /\ r.pc = "stream"
  /\ task' = [task EXCEPT ![t] =
                Return([r EXCEPT !.stream = "fault", !.all_ok = FALSE],
                       ChatReturn(MsgRequestFailed), user_sessions, user_models)]
  /\ Track(t, FALSE)
  /\ UNCHANGED <<user_sessions, user_models, backend, nops, streamVars>>

\* The select-choice request of _send_choice ends (a response, or a fault or
\* the 5 s timeout), lines 139-141, 200 and 288.
SendChoiceEnds(t, ok) ==
  LET r == task[t] IN
  /\ r.pc = "choice_post"
  /\ task' = [task EXCEPT ![t] =
                Return([r EXCEPT !.choice = IF ok THEN "ok" ELSE "failed",
                                 !.all_ok = @ /\ ok],
                       ChatReturn(AfterSendChoice(r.result, ok)),
                       user_sessions, user_models)]
  /\ Track(t, FALSE)
  /\ UNCHANGED <<user_sessions, user_models, backend, nops, streamVars>>

\* A fault of lines 295-296: the dictionaries are not cleared.
NotCleared(d) == d

\* dict.clear()
Cleared(d) == [x \in {} |-> d[x]]

\* clean_up, lines 293-297.
CleanUp ==
  /\ nops < MaxOps
  /\ user_sessions' = Cleared(user_sessions)
  /\ user_models' = Cleared(user_models)
  /\ task' = [q \in Tasks |-> IF Running(task[q])
                              THEN [task[q] EXCEPT !.cleaned = TRUE]
                              ELSE IdleTask]
  /\ last' = [u \in Users |->
                IF u \in DOMAIN user_sessions \cup DOMAIN user_models THEN CleanedUp
                ELSE IF last[u] = Imported THEN Imported ELSE NoPrev]
  /\ nops' = nops + 1
  /\ UNCHANGED <<backend, streamVars>>

\* The state after the module is imported: both dictionaries empty.
Init ==
  /\ user_sessions = << >>
  /\ user_models = << >>
  /\ backend = << >>
  /\ task = [t \in Tasks |-> IdleTask]
  /\ last = [u \in Users |-> NoPrev]
  /\ nops = 0
  /\ lines = << >>
  /\ pos = 0
  /\ agg = AggInit
  /\ outcome = "eof"

Next ==
  \/ \E t \in Tasks, u \in Users, target \in Targets : SwitchModel(t, u, target)
  \/ \E t \in Tasks, u \in Users : NewSession(t, u)
  \/ \E t \in Tasks, u \in Users, full_text \in FullTexts : HandleChatCommand(t, u, full_text)
  \/ \E t \in Tasks, how \in {"ok", "noid", "fail"} : CreateResponse(t, how)
  \/ \E t \in Tasks, ok \in BOOLEAN : InitSelectResponse(t, ok)
  \/ \E t \in Tasks, ok \in BOOLEAN : SelectResponse(t, ok)
  \/ \E t \in Tasks, ls \in ChatStreams : StreamDelivered(t, ls)
  \/ \E t \in Tasks : StreamFault(t)
  \/ \E t \in Tasks, ok \in BOOLEAN : SendChoiceEnds(t, ok)
  \/ CleanUp

Spec == Init /\ [][Next]_vars

\* ------------------------------------------- a process that has run a while
\* What the store holds for one user after earlier operations: nothing; a
\* session and the model recorded by a switch_model to 黑猫 or by the
\* _switch_model of _create_new_session ("Orange Cat"); a session and no model,
\* the _switch_model of _create_new_session having failed.
PriorEntries == {"none", "exotic", "orange", "unrecorded"}

\* The chat_id of user u: the backend numbers the sessions as it creates them.
PriorSid(p, u) == IF u = "u1" \/ p["u1"] = "none" THEN 1 ELSE 2

PriorModel(e) == IF e = "exotic" THEN ExoticShorthair ELSE OrangeCat

PriorSessions(p) == [u \in {v \in Users : p[v] # "none"} |-> PriorSid(p, u)]

PriorModels(p) ==
  [u \in {v \in Users : p[v] \in {"exotic", "orange"}} |-> PriorModel(p[u])]

PriorBackend(p) ==
  LET held == {v \in Users : p[v] # "none"}
      owner(i) == CHOOSE v \in held : PriorSid(p, v) = i
  IN [i \in 1..Cardinality(held) |-> [model |-> PriorModel(p[owner(i)]), user |-> owner(i)]]

\* The process after earlier operations have returned, or as imported.
PriorInit ==
  \E p \in [Users -> PriorEntries] :
    /\ user_sessions = PriorSessions(p)
    /\ user_models = PriorModels(p)
    /\ backend = PriorBackend(p)
    /\ task = [t \in Tasks |-> IdleTask]
    /\ last = [u \in Users |-> IF \A v \in Users : p[v] = "none" THEN Imported ELSE NoPrev]
    /\ nops = 0
    /\ lines = << >>
    /\ pos = 0
    /\ agg = AggInit
    /\ outcome = "eof"

\* From there, clean_up and handle_chat_command calls.
PriorNext ==
  \/ \E t \in Tasks, u \in Users, full_text \in FullTexts : HandleChatCommand(t, u, full_text)
  \/ \E t \in Tasks, how \in {"ok", "noid", "fail"} : CreateResponse(t, how)
  \/ \E t \in Tasks, ok \in BOOLEAN : InitSelectResponse(t, ok)
  \/ \E t \in Tasks, ls \in ChatStreams : StreamDelivered(t, ls)
  \/ \E t \in Tasks : StreamFault(t)
  \/ \E t \in Tasks, ok \in BOOLEAN : SendChoiceEnds(t, ok)
  \/ CleanUp

PriorSpec == PriorInit /\ [][PriorNext]_vars

\* ---------------------------------------- the aggregation, line by line
\* _stream_reply's loop on its own: a stream is given, and each step takes
\* one line of it.
StreamInit ==
  /\ user_sessions = << >>
  /\ user_models = << >>
  /\ backend = << >>
  /\ task = [t \in Tasks |-> IdleTask]
  /\ last = [u \in Users |-> NoPrev]
  /\ nops = 0
  /\ lines \in Streams
  /\ pos = 0
  /\ agg = AggInit
  /\ outcome = "reading"

\* One iteration of the loop, lines 162-191.
ReadLine ==
  /\ outcome = "reading"
  /\ pos < Len(lines)
  /\ pos' = pos + 1
  /\ IF IsChoiceShown(lines[pos + 1])
     THEN outcome' = "unresolved" /\ agg' = agg
     ELSE IF Uncaught(lines[pos + 1])
          THEN outcome' = "fault" /\ agg' = agg
          ELSE outcome' = outcome /\ agg' = ProcessLine(agg, lines[pos + 1])
  /\ UNCHANGED <<lines, sessionVars>>

\* aiter_lines() is exhausted.
EndOfStream ==
  /\ outcome = "reading"
  /\ pos = Len(lines)
  /\ outcome' = "eof"
  /\ UNCHANGED <<lines, pos, agg, sessionVars>>

StreamNext == ReadLine \/ EndOfStream

StreamSpec == StreamInit /\ [][StreamNext]_vars

\* ------------------------------------------------------------- properties
\* The positions of the requests of one kind among those a handler issued.
ReqsOf(r, kind) == { i \in 1..Len(r.reqs) : r.reqs[i][1] = kind }

EndsWith(s, suffix) ==
  Len(s) >= Len(suffix) /\ SubSeq(s, Len(s) - Len(suffix) + 1, Len(s)) = suffix

\* A chat call with content for a user who had no session when it was invoked.
ChatOfNewUser(r) ==
  r.op = "chat" /\ r.pc # "idle" /\ r.content # << >> /\ r.pre_sid = NoSid

\* The handler has opened its stream.
StreamOpened(r) == ReqsOf(r, "stream") # {}

\* C1: a chat call with content for a user without a session issues
\* createSession first, before any stream request, and opens its stream on a
\* session id that a createSession stored for that user; when no other
\* handler of that user runs meanwhile, it issues exactly one createSession,
\* streams on the id that this createSession stored, and the user went from
\* no session to a session exactly once.
C1_ChatCreatesSessionBeforeStream ==
  \A t \in Tasks :
    LET r == task[t] IN
    ChatOfNewUser(r) =>
      /\ r.reqs # << >> /\ r.reqs[1][1] = "createSession"
      /\ StreamOpened(r) =>
           /\ \A i \in ReqsOf(r, "stream") : \E k \in ReqsOf(r, "createSession") : k < i
           /\ \A i \in ReqsOf(r, "stream") :
                /\ r.reqs[i][2] \in 1..Len(backend)
                /\ backend[r.reqs[i][2]].user = r.user
           /\ r.solo =>
                /\ Cardinality(ReqsOf(r, "createSession")) = 1
                /\ \A i \in ReqsOf(r, "stream") : r.reqs[i][2] = r.chat_id
                /\ r.entered = 1

\* C1 happens: a chat call that ran alone for a user without a session has
\* created one and has opened its stream on it.
C1_Witness ==
  \E t \in Tasks :
    /\ ChatOfNewUser(task[t]) /\ task[t].solo /\ task[t].pc = "stream"
    /\ task[t].session_id = task[t].chat_id /\ task[t].chat_id # NoSid

\* C2 as claimed: chat's returned string ends with the watermark if and only
\* if its stream ended in a successful aggregated reply (not for the
\* unresolved-branch message, the retry-later message, the creation-failure
\* message or the prompt for input).
C2_WatermarkOnlyOnSuccess ==
  \A t \in Tasks :
    LET r == task[t] IN
    (r.op = "chat" /\ r.pc = "done") => (EndsWith(r.ret, WATERMARK) <=> r.stream = "eof")

\* C5 as claimed: chat does not wait for resolveBranch: while a handler's
\* select-choice request is pending, its reply has been returned.
C5_ReplyNotDelayedByResolveBranch ==
  \A t \in Tasks : task[t].choice = "pending" => task[t].pc = "done"

\* Two chat calls that received the same stream to its end, the select-choice
\* request of the first failed, that of the second succeeded.
SameStreamFailedAndOk(r1, r2) ==
  /\ r1.op = "chat" /\ r1.pc = "done" /\ r1.choice = "failed"
  /\ r2.op = "chat" /\ r2.pc = "done" /\ r2.choice = "ok"
  /\ r1.received = r2.received

\* The step in which the select-choice request of task t ends.
ChoiceEnds(t) == task[t].choice = "pending" /\ task'[t].choice # "pending"

\* C6: for the same stream content, a chat call whose resolveBranch request
\* fails returns exactly the string that one whose request succeeds returns,
\* and the end of the request, failed or not, leaves the session store as
\* it was.
C6_ResolveBranchFailureIsInvisible ==
  /\ [](\A t1, t2 \in Tasks :
          SameStreamFailedAndOk(task[t1], task[t2]) => task[t1].ret = task[t2].ret)
  /\ [][\A t \in Tasks :
          ChoiceEnds(t) => /\ task'[t].pc = "done"
                           /\ user_sessions' = user_sessions
                           /\ user_models' = user_models]_vars

\* C6 happens: two chat calls got the same stream, one's resolveBranch failed
\* and the other's succeeded.
C6_Witness ==
  \E t1, t2 \in Tasks :
    /\ SameStreamFailedAndOk(task[t1], task[t2])
    /\ task[t1].result # << >>

\* new_session and switch_model have run concurrently for one user, every
\* backend call of both succeeded, no clean_up ran, and both have returned.
NewAndSwitchReturned(rn, rs) ==
  /\ rn.op = "new" /\ rn.pc = "done" /\ rs.op = "switch" /\ rs.pc = "done"
  /\ rn.user = rs.user /\ rs.target_model \in Models
  /\ ~rn.solo /\ ~rs.solo
  /\ rn.all_ok /\ rs.all_ok /\ ~rn.cleaned /\ ~rs.cleaned

\* C7 as claimed: when newSession(u) and switchModel(u, M) run concurrently
\* and every backend call succeeds, then once both have returned the store
\* records M as u's model, and the backend model of u's recorded session is
\* u's recorded model.
C7_NoLostModelAssignment ==
  \A t1, t2 \in Tasks :
    NewAndSwitchReturned(task[t1], task[t2]) =>
      LET u == task[t1].user IN
      /\ GetModel(user_models, u) = task[t2].target_model
      /\ u \in DOMAIN user_sessions
      /\ backend[user_sessions[u]].model = GetModel(user_models, u)

\* Two chat calls run concurrently for one user who had no session when each
\* was invoked, and both have opened their stream.
TwoChatsOfNewUser(r1, r2) ==
  /\ ChatOfNewUser(r1) /\ ChatOfNewUser(r2) /\ r1.user = r2.user
  /\ ~r1.solo /\ ~r2.solo
  /\ StreamOpened(r1) /\ StreamOpened(r2)

\* C8 as claimed: two concurrent chat calls for the same unseen user issue
\* one createSession between them, the user goes from no session to a
\* session once and no issued session id is overwritten, and both calls
\* stream on the same session id.
C8_ConcurrentChatsShareOneSession ==
  \A t1, t2 \in Tasks :
    (t1 # t2 /\ TwoChatsOfNewUser(task[t1], task[t2])) =>
      /\ Cardinality(ReqsOf(task[t1], "createSession"))
           + Cardinality(ReqsOf(task[t2], "createSession")) = 1
      /\ task[t1].session_id = task[t2].session_id
      /\ Cardinality({ k \in 1..Len(backend) : backend[k].user = task[t1].user }) = 1

\* The label of a model.
LabelOf(model) == IF model = OrangeCat THEN JuMao ELSE HeiMao

\* C9 as claimed: a new_session whose createSession succeeded leaves the
\* newly issued id as the user's session id and returns the label of the
\* model the session was created with, which is the user's recorded model
\* or, without one, Orange Cat; also when the selectModel call made after the
\* creation failed.
C9_NewSessionReturnsLabelOfCreationModel ==
  \A t \in Tasks :
    LET r == task[t] IN
    (r.op = "new" /\ r.pc = "done" /\ r.chat_id # NoSid /\ r.solo /\ ~r.cleaned) =>
      /\ r.post_sid = r.chat_id /\ r.chat_id # r.pre_sid
      /\ backend[r.chat_id].user = r.user
      /\ r.model = (IF r.pre_model = NoModel THEN OrangeCat ELSE r.pre_model)
      /\ r.ret = MsgNewSession(LabelOf(r.model))

\* switch_model has returned after a switch_model of the same user that
\* mapped to the same model; nothing else ran for the user in between or
\* meanwhile, and no backend call of either failed.
SecondSwitch(r) ==
  /\ r.op = "switch" /\ r.pc = "done" /\ r.all_ok /\ r.solo /\ ~r.cleaned
  /\ r.prev.op = "switch" /\ r.prev.all_ok
  /\ r.target_model # NoModel /\ r.prev.target_model = r.target_model

\* C10: with the backend succeeding, the second of two successive
\* switch_model calls of a user to the same model returns the confirmation
\* the first returned, issues no createSession, and leaves the user's
\* session id and recorded model as they were after the first.
C10_SwitchTwiceIsIdempotent ==
  \A t \in Tasks :
    LET r == task[t] IN
    SecondSwitch(r) =>
      /\ r.ret = r.prev.ret /\ r.ret = MsgSwitched(r.target_name)
      /\ ReqsOf(r, "createSession") = {}
      /\ r.post_sid = r.prev.sid /\ r.post_sid # NoSid
      /\ r.post_model = r.prev.model /\ r.post_model = r.target_model

\* C10 happens: a second successive switch to the same model has returned.
C10_Witness == \E t \in Tasks : SecondSwitch(task[t])

\* ------------------------------------- properties of the aggregation
\* The positions of the stream that hold a line without the data-frame
\* prefix whose record carries the code chat_choice_shown.
ErrorPositions(ls) ==
  { i \in 1..Len(ls) : ls[i].kind = "nondata" /\ ls[i].code = "chat_choice_shown" }

Min(S) == CHOOSE x \in S : \A y \in S : x <= y
Max(S) == CHOOSE x \in S : \A y \in S : x >= y

\* C3: a chat_choice_shown line at any position of the stream makes the
\* aggregation end as the unresolved-branch outcome, whatever text and message
\* id were accumulated before it, and no line after it is consumed.
C3_ErrorLineEndsAggregation ==
  ErrorPositions(lines) # {} =>
    /\ pos <= Min(ErrorPositions(lines))
    /\ pos = Min(ErrorPositions(lines)) <=> outcome = "unresolved"
    /\ outcome # "eof"
    /\ Aggregate(lines, 1, AggInit).outcome = "unresolved"
    /\ Aggregate(lines, 1, AggInit).consumed = Min(ErrorPositions(lines))

\* C3 happens: the error line was read after text and a message id.
C3_Witness ==
  /\ outcome = "unresolved" /\ pos = Len(lines) - 1
  /\ agg.result # << >> /\ agg.current_msg_id # ""

RECURSIVE Flatten(_)
Flatten(ss) == IF ss = << >> THEN << >> ELSE Head(ss) \o Flatten(Tail(ss))

\* The records of the data-frame lines, in arrival order.
IsRecord(line) == line.kind = "data" /\ line.raw = "dict"

HasChoices(j) == "c" \in DOMAIN j /\ j.c.ty = "list"
HasText(j) == "v" \in DOMAIN j /\ j.v.ty = "str"

\* The text of the choices of a record whose tag is 0.
TaggedZeroText(items) ==
  Flatten([i \in 1..Len(items) |->
             IF /\ "c" \in DOMAIN items[i] /\ items[i].c = 0
                /\ "v" \in DOMAIN items[i] /\ items[i].v.ty = "str"
             THEN items[i].v.s ELSE << >>])

\* The text C4 claims for a stream: per record, the values of the choices
\* tagged 0, or else the plain text value.
ClaimedText(ls) ==
  Flatten([i \in 1..Len(ls) |->
             IF ~IsRecord(ls[i]) THEN << >>
             ELSE IF HasChoices(ls[i].j) THEN TaggedZeroText(ls[i].j.c.items)
             ELSE IF HasText(ls[i].j) THEN ls[i].j.v.s
             ELSE << >>])

\* The id of the last record with a message id, "" without one.
LastMessageId(ls) ==
  LET ids == { i \in 1..Len(ls) : IsRecord(ls[i]) /\ "msg_id" \in DOMAIN ls[i].j }
  IN IF ids = {} THEN "" ELSE ls[Max(ids)].j.msg_id

\* C4 as claimed: for a stream without an error line, the aggregated text is
\* the concatenation, in arrival order, of the plain text values and of the
\* values of exactly the choices whose tag is 0, and the last message id is
\* that of the last message-id record, or absent.
C4_TextOfChoicesTaggedZero ==
  (outcome = "eof" /\ ErrorPositions(lines) = {}) =>
    /\ agg.result = ClaimedText(lines)
    /\ agg.current_msg_id = LastMessageId(lines)

\* A choice the loop accepts: an object with a value whose tag is 0 or that
\* has no tag.
Accepted(choice) ==
  /\ "ty" \notin DOMAIN choice
  /\ "v" \in DOMAIN choice
  /\ ("c" \in DOMAIN choice => choice.c = 0)

\* A choice at which the record is abandoned: no object, or accepted with a
\* value that is no string.
Malformed(choice) ==
  \/ "ty" \in DOMAIN choice
  \/ Accepted(choice) /\ choice.v.ty # "str"

\* The text of the accepted choices of a record before its first malformed one.
AcceptedText(items) ==
  LET bad == { i \in 1..Len(items) : Malformed(items[i]) }
      stop == IF bad = {} THEN Len(items) + 1 ELSE Min(bad)
  IN Flatten([i \in 1..Len(items) |->
                IF i < stop /\ Accepted(items[i]) THEN items[i].v.s ELSE << >>])

AmendedText(ls) ==
  Flatten([i \in 1..Len(ls) |->
             IF ~IsRecord(ls[i]) THEN << >>
             ELSE IF HasChoices(ls[i].j) THEN AcceptedText(ls[i].j.c.items)
             ELSE IF HasText(ls[i].j) THEN ls[i].j.v.s
             ELSE << >>])

\* C4, amended: for a stream without an error line, the aggregated text is the
\* concatenation, in arrival order, of the plain text values and of the values
\* of exactly the choices whose tag is 0 or that carry no tag, each record's
\* choices counting up to its first choice that is no object or whose accepted
\* value is no string; the last message id is that of the last message-id
\* record, or absent.
C4_TextOfAcceptedChoices ==
  (outcome = "eof" /\ ErrorPositions(lines) = {}) =>
    /\ agg.result = AmendedText(lines)
    /\ agg.current_msg_id = LastMessageId(lines)
    /\ Aggregate(lines, 1, AggInit) =
         [outcome |-> "eof", result |-> AmendedText(lines),
          current_msg_id |-> LastMessageId(lines), consumed |-> Len(lines)]

\* C4 happens: a stream with a message-id record, a record with a choice
\* tagged 0 and one tagged 1, and a record with a choice without a tag was
\* aggregated to its end.
C4_Witness ==
  /\ outcome = "eof" /\ ErrorPositions(lines) = {}
  /\ agg.result = <<"H", "e", "t">>
  /\ agg.current_msg_id = "m1"

\* ------------------------------------------------------ clean_up and chat
\* A chat call with content invoked when clean_up, or the import of the
\* module, was the last thing that happened to its user's entries.
ChatAfter(r, what) ==
  r.op = "chat" /\ r.pc # "idle" /\ r.content # << >> /\ r.prev = what

\* The requests of a chat call made as the first operation of a process, as
\* far as the call has got: createSession with "Orange Cat", selectModel of
\* the id createSession returned with "Orange Cat", the stream on that id,
\* and select-choice with the message id of the stream.
FirstCallRequests(r) ==
  <<<<"createSession", OrangeCat>>>>
  \o (IF r.chat_id = NoSid THEN << >>
      ELSE <<<<"selectModel", r.chat_id, OrangeCat>>>>)
  \o (IF r.chat_id = NoSid \/ r.pc = "init_select_post" THEN << >>
      ELSE <<<<"stream", r.chat_id, r.content>>>>)
  \o (IF r.choice = "none" THEN << >>
      ELSE <<<<"resolveBranch", Aggregate(r.received, 1, AggInit).current_msg_id>>>>)

\* What that call returns, given how the backend answered it.
FirstCallReply(r) ==
  IF r.chat_id = NoSid THEN MsgCreateFailed
  ELSE IF r.stream = "fault" THEN MsgRequestFailed \o WATERMARK
  ELSE LET a == Aggregate(r.received, 1, AggInit)
       IN IF a.outcome = "unresolved" THEN MsgBranchUnresolved \o WATERMARK
          ELSE a.result \o WATERMARK

\* The behaviour of a first call: the user has no entry; the first two
\* requests are those of a first call whatever else runs; and when no other
\* handler of the user and no further clean_up runs meanwhile, all requests
\* and the reply are.
BehavesAsFirstCall(r) ==
  /\ r.pre_sid = NoSid /\ r.pre_model = NoModel
  /\ r.model = OrangeCat
  /\ r.pc # "raised" =>
       SubSeq(r.reqs, 1, Min({2, Len(r.reqs)})) =
         SubSeq(FirstCallRequests(r), 1, Min({2, Len(r.reqs)}))
  /\ (r.solo /\ ~r.cleaned) =>
       /\ r.pc # "raised"
       /\ r.reqs = FirstCallRequests(r)
       /\ r.pc = "done" => r.ret = FirstCallReply(r)

\* C11: a chat call invoked right after clean_up has removed what the store
\* held for its user behaves as the same call made as the first operation of a process:
\* it finds no session id and no recorded model, issues createSession with
\* "Orange Cat", selectModel of the new id with "Orange Cat", then the stream
\* on the new id, and returns the same reply.
C11_ChatAfterCleanUpIsAFirstCall ==
  \A t \in Tasks :
    (ChatAfter(task[t], CleanedUp) \/ ChatAfter(task[t], Imported)) =>
      BehavesAsFirstCall(task[t])

\* C11 happens: a user with a session whose model is "Exotic Shorthair" chats
\* right after clean_up and gets the reply of the stream on a new session.
C11_Witness ==
  \E t \in Tasks :
    LET r == task[t] IN
    /\ ChatAfter(r, CleanedUp) /\ r.pc = "done" /\ r.solo /\ ~r.cleaned
    /\ \E i \in 1..Len(backend) :
         i < r.chat_id /\ backend[i].user = r.user /\ backend[i].model = ExoticShorthair
    /\ r.session_id = r.chat_id
    /\ r.ret = <<"H", "e", "l", "l", "o">> \o WATERMARK

\* ------------------------------------------------ a failed selectModel
\* The selectModel request of task t's switch_model fails in this step.
SwitchFails(t) ==
  task[t].pc = "select_post" /\ task'[t].switched = "failed"

\* C12: when the selectModel request of switch_model fails, switch_model
\* returns its failure message, the step leaves the user's recorded model and
\* session id as they were, and unless clean_up ran meanwhile the user still
\* has a session id: alone, the one switch_model read or created.
C12_FailedSwitchKeepsModelAndSession ==
  /\ [](\A t \in Tasks :
          LET r == task[t] IN
          r.switched = "failed" =>
            /\ r.pc = "done" /\ r.op = "switch"
            /\ r.ret = MsgSwitchFailed(r.target_name)
            /\ ~r.cleaned => r.post_sid # NoSid
            /\ (r.solo /\ ~r.cleaned) => r.post_sid = r.chat_id)
  /\ [][\A t \in Tasks :
          SwitchFails(t) =>
            /\ user_models' = user_models
            /\ user_sessions' = user_sessions
            /\ task'[t].post_model = GetModel(user_models, task[t].user)
            /\ task'[t].post_sid = GetSid(user_sessions, task[t].user)]_vars

\* C12 happens: switch_model created the user's session, its selectModel
\* request failed, and the created session id is in the store.
C12_Witness ==
  \E t \in Tasks :
    LET r == task[t] IN
    /\ r.switched = "failed" /\ r.solo /\ ~r.cleaned
    /\ ReqsOf(r, "createSession") # {}
    /\ r.target_model = ExoticShorthair /\ r.post_model = OrangeCat
    /\ GetSid(user_sessions, r.user) = r.chat_id /\ r.chat_id # NoSid
    /\ r.ret = MsgSwitchFailed(HeiMao)

\* ------------------------------------------------- lines that carry nothing
\* A blank line, a line that does not parse, or a record of no recognized
\* shape: a line without the "data: " prefix other than the chat_choice_shown
\* record, a "data: " line whose payload is blank, invalid or no object, or a
\* record with no message id, no choices list and no string value.
Inert(line) ==
  \/ line.kind = "blank"
  \/ line.kind = "nondata" /\ line.code # ChoiceShown
  \/ line.kind = "data" /\ line.raw # "dict"
  \/ /\ IsRecord(line)
     /\ "msg_id" \notin DOMAIN line.j
     /\ ~HasChoices(line.j)
     /\ ~HasText(line.j)

AllInert(ls) == \A i \in 1..Len(ls) : Inert(ls[i])

\* C13: a stream made only of blank lines, lines that do not parse and
\* records of no recognized shape is read to its end without a failure: the
\* text stays empty and the message id absent, no select-choice request is
\* due, and the chat reply is the empty text with the watermark, not the
\* retry-later message.
C13_InertStreamIsAnEmptySuccess ==
  AllInert(lines) =>
    /\ outcome \in {"reading", "eof"}
    /\ agg = AggInit
    /\ LET a == Aggregate(lines, 1, AggInit) IN
       /\ a = [outcome |-> "eof", result |-> << >>, current_msg_id |-> "",
               consumed |-> Len(lines)]
       /\ ~SendsChoice(a)
       /\ ChatReturn(StreamReply(a)) = WATERMARK
       /\ ChatReturn(StreamReply(a)) # ChatReturn(MsgRequestFailed)

\* C13 happens: a stream of a blank line, a line that does not parse and a
\* record of no recognized shape was read to its end.
C13_Witness ==
  /\ outcome = "eof" /\ pos = 3
  /\ lines = <<BlankLine, NonData("not_json"), Data([v |-> Num])>>

\* ------------------------------------------------- a fault of the stream
\* C14: when opening or reading the stream raises, the chat call returns the
\* retry-later message, it does not end with an exception, and the user's
\* session id and recorded model are as they were when the stream was opened
\* (compared for a call during which nothing else touched them).
C14_StreamFaultReturnsRetryLater ==
  \A t \in Tasks :
    LET r == task[t] IN
    (r.op = "chat" /\ r.stream = "fault") =>
      /\ r.pc = "done"
      /\ r.ret = MsgRequestFailed
      /\ (r.solo /\ ~r.cleaned) =>
           /\ r.post_sid = r.session_id
           /\ r.pre_sid # NoSid => r.post_model = r.pre_model

\* What holds of C14 in the code: the same with the watermark appended to
\* the message.
StreamFaultReturnsRetryLaterWithWatermark ==
  \A t \in Tasks :
    LET r == task[t] IN
    (r.op = "chat" /\ r.stream = "fault") =>
      /\ r.pc = "done"
      /\ r.ret = MsgRequestFailed \o WATERMARK
      /\ (r.solo /\ ~r.cleaned) =>
           /\ r.post_sid = r.session_id
           /\ r.pre_sid # NoSid => r.post_model = r.pre_model

\* ------------------------------------------------- chat calls without content
\* A chat call whose text, leading whitespace aside, does not start with
\* "/chat", or whose content after "/chat" and the whitespace around it is
\* empty.
ChatWithoutContent(r) == r.op = "chat" /\ r.pc # "idle" /\ r.content = << >>

\* C15: a chat call whose text is no command or whose content is empty
\* returns at once (the empty string, or the prompt) without a backend
\* request, and its step leaves user_sessions, user_models and the backend's
\* sessions as they were: a user without a session still has none.
C15_ChatWithoutContentDoesNothing ==
  /\ [](\A t \in Tasks :
          LET r == task[t] IN
          ChatWithoutContent(r) =>
            /\ r.pc = "done"
            /\ r.ret \in {MsgNotACommand, MsgPromptInput}
            /\ r.reqs = << >>
            /\ r.post_sid = r.pre_sid /\ r.post_model = r.pre_model)
  /\ [][\A t \in Tasks :
          (task'[t] # task[t] /\ ChatWithoutContent(task'[t])) =>
            /\ user_sessions' = user_sessions
            /\ user_models' = user_models
            /\ backend' = backend]_vars

\* C15 happens: "/chat " for a user without a session returned the prompt,
\* and the user has no session.
C15_Witness ==
  \E t \in Tasks :
    LET r == task[t] IN
    /\ ChatWithoutContent(r) /\ r.pc = "done"
    /\ r.ret = MsgPromptInput
    /\ r.pre_sid = NoSid
    /\ r.user \notin DOMAIN user_sessions

\* ------------------------------------------------- one user's entries
\* The users whose session id or recorded model the step adds, changes or
\* removes.
Touched ==
  { v \in Users : \/ GetSid(user_sessions', v) # GetSid(user_sessions, v)
                  \/ GetModel(user_models', v) # GetModel(user_models, v) }

\* The step is clean_up: an operation is invoked that is no handler, and
\* both dictionaries are empty after it.
CleanUpStep ==
  /\ nops' = nops + 1
  /\ DOMAIN user_sessions' = {} /\ DOMAIN user_models' = {}
  /\ \A t \in Tasks : task'[t].pc = task[t].pc \/ task'[t] = IdleTask

\* The step is one of a running handler of user v, after one of its awaits.
HandlerStepOf(v) ==
  \E t \in Tasks :
    Running(task[t]) /\ task[t].user = v /\ task'[t].pc # task[t].pc

\* C16: a step that adds, changes or removes the session id or the recorded
\* model of a user is a step of a handler invoked for that user, and touches
\* no other user's entries, or it is clean_up.
C16_HandlersTouchOnlyTheirUser ==
  [][\/ Touched = {}
     \/ CleanUpStep
     \/ \E v \in Users : Touched = {v} /\ HandlerStepOf(v)]_vars

\* C16 happens: a switch_model of u2 has recorded "Exotic Shorthair" for u2
\* while u1 keeps its own session id and its recorded "Orange Cat".
C16_Witness ==
  \E t \in Tasks :
    LET r == task[t] IN
    /\ r.op = "switch" /\ r.user = "u2" /\ r.switched = "ok"
    /\ r.target_model = ExoticShorthair
    /\ GetModel(user_models, "u2") = ExoticShorthair
    /\ GetModel(user_models, "u1") = OrangeCat
    /\ GetSid(user_sessions, "u1") # NoSid
    /\ GetSid(user_sessions, "u2") # NoSid
    /\ GetSid(user_sessions, "u1") # GetSid(user_sessions, "u2")

\* ------------------------------------------------- the shapes of a record
\* The loop reads a record in this step.
ReadsRecord ==
  outcome = "reading" /\ pos < Len(lines) /\ pos' = pos + 1 /\ IsRecord(lines[pos + 1])

HasMessageId(j) == "msg_id" \in DOMAIN j

\* The text a record contributes by its first matching content shape: the
\* choices list, else the string value.
ContentText(j) ==
  IF HasChoices(j) THEN AcceptedText(j.c.items)
  ELSE IF HasText(j) THEN j.v.s
  ELSE << >>

\* C17 as claimed: a record that contains a message id sets the last message
\* id and adds nothing to the text, whatever else it carries; a record
\* without one adds the text of its first matching content shape.
C17_MessageIdRecordAddsNoText ==
  [][ReadsRecord =>
       LET j == lines[pos + 1].j IN
       IF HasMessageId(j)
       THEN agg'.current_msg_id = j.msg_id /\ agg'.result = agg.result
       ELSE /\ agg'.current_msg_id = agg.current_msg_id
            /\ agg'.result = agg.result \o ContentText(j)]_vars

\* C17, amended: the message id of a record is taken independently of its
\* content: a record that contains a message id sets the last message id, and
\* every record, with or without a message id, adds the text of its first
\* matching content shape only (the choices list, else the string value).
C17_MessageIdIsIndependentOfContent ==
  [][ReadsRecord =>
       LET j == lines[pos + 1].j IN
       /\ agg'.current_msg_id = IF HasMessageId(j) THEN j.msg_id ELSE agg.current_msg_id
       /\ agg'.result = agg.result \o ContentText(j)]_vars

\* C17 happens: a record with a message id and a string value, then a record
\* with a choices list and a string value, were read.
C17_Witness ==
  /\ pos = 2
  /\ lines[1] = Data([msg_id |-> "m2", v |-> Str(<<"x">>)])
  /\ lines[2] = Data([c |-> List(<<[c |-> 0, v |-> Str(<<"a">>)]>>), v |-> Str(<<"z">>)])
  /\ agg = [result |-> <<"x", "a">>, current_msg_id |-> "m2"]

\* ------------------------------------------------- the select-choice request
\* C18: a chat call issues select-choice at most once, as its last request
\* and after its stream request, only when the stream was read to its end and
\* with the last message id the stream carried; none is issued when the
\* stream carried no message id, when it ended with the chat_choice_shown
\* line, or when reading it raised.
C18_SelectChoiceOnceAfterTheStream ==
  \A t \in Tasks :
    LET r == task[t]
        sent == ReqsOf(r, "resolveBranch")
    IN
    /\ Cardinality(sent) <= 1
    /\ sent # {} =>
         /\ r.op = "chat" /\ r.stream = "eof"
         /\ sent = {Len(r.reqs)}
         /\ ReqsOf(r, "stream") = {Len(r.reqs) - 1}
         /\ Aggregate(r.received, 1, AggInit).consumed = Len(r.received)
         /\ LastMessageId(r.received) # ""
         /\ r.reqs[Len(r.reqs)] = <<"resolveBranch", LastMessageId(r.received)>>
    /\ ( \/ r.stream \in {"unresolved", "fault"}
         \/ r.stream = "eof" /\ LastMessageId(r.received) = "" ) => sent = {}

\* C18 happens: a stream with the message ids m1 and then m2 was read to its
\* end and select-choice was issued with m2.
C18_Witness ==
  \E t \in Tasks :
    LET r == task[t] IN
    /\ r.pc = "done" /\ r.stream = "eof"
    /\ { i \in 1..Len(r.received) : IsRecord(r.received[i]) /\ HasMessageId(r.received[i].j) } = {1, 3}
    /\ r.received[1].j.msg_id = "m1"
    /\ r.reqs[Len(r.reqs)] = <<"resolveBranch", "m2">>

\* ------------------------------------------------- a failed createSession
\* The createSession request of task t fails in this step.
CreateFails(t) ==
  task[t].pc = "create_post" /\ task'[t].created = "failed"

FailedCreateOfSwitch ==
  \E t \in Tasks :
    LET r == task[t] IN
    r.op = "switch" /\ r.created = "failed" /\ r.ret = MsgSwitchCreateFailed

\* ------------------------------------------------- chat and clean_up
\* C20: a chat call whose _create_new_session has returned a chat_id finds
\* the user's entry in user_sessions on the line that follows, whatever
\* clean_up does meanwhile: it opens its stream on a session id and does not
\* end with an exception.
C20_ChatFindsItsSessionAfterCreate ==
  \A t \in Tasks :
    LET r == task[t] IN
    (r.op = "chat" /\ r.created = "ok" /\ r.pc # "init_select_post") =>
      /\ r.pc # "raised"
      /\ r.session_id # NoSid
      /\ StreamOpened(r)

====
